---- MODULE Spec2Model ----
(***************************************************************************)
(* Model of the motion engine of KakMode: Position (position.ts) and the   *)
(* Kakoune motions (kakMotion.ts).  A line is a sequence of one-character  *)
(* strings; JavaScript indices are 0-based, so character i of a line is    *)
(* line[i + 1].                                                            *)
(***************************************************************************)
EXTENDS Integers, Sequences, FiniteSets, TLC

VARIABLES doc, anchor, cursor, call, scan

vars == <<doc, anchor, cursor, call, scan>>

(***************************************************************************)
(* Bounds of the model.                                                    *)
(***************************************************************************)
MaxScanLen == 3

(***************************************************************************)
(* Characters.  U3042 stands for the code point U+3042 (Hiragana A).       *)
(***************************************************************************)
Whitespace == {" "}
UpperCase == {"A"}
Digits == {"1"}
Underscore == {"_"}
ScanAlphabet == {"a", "A", "1", "_", " ", ".", "(", "U3042"}

\* configuration.iskeyword, restricted to the characters of the model
NonWordCharacters == {".", "("}
NonBigWordCharacters == {}
\* U0060 stands for the grave accent
NonFileCharacters == {"\"", "'", "U0060", ";", "<", ">", "{", "}", "[", "]", "(", ")"}

\* enum CharKind of makeUnicodeWordRegex, in declaration order
CharKind ==
  <<"Punctuation", "Superscript", "Subscript", "Braille", "Ideograph",
    "Hiragana", "Katakana", "Hangul">>

\* symbolTable of makeUnicodeWordRegex: the kinds whose intervals hold c
symbolTable(c) == IF c = "U3042" THEN {"Hiragana"} ELSE {}

SymbolChars == {c \in ScanAlphabet : symbolTable(c) # {}}

(***************************************************************************)
(* The classifier regexes, as records.                                     *)
(***************************************************************************)
makeWordRegex(characterSet) == [type |-> "word", escaped |-> characterSet]

makeCamelCaseWordRegex(characterSet) ==
  [type |-> "camel", escaped |-> characterSet]

makeUnicodeWordRegex(keywordChars) ==
  [type |-> "unicode", escaped |-> keywordChars]

nonWordCharRegex == makeUnicodeWordRegex(NonWordCharacters)
nonBigWordCharRegex == makeWordRegex(NonBigWordCharacters)
nonCamelCaseWordCharRegex == makeCamelCaseWordRegex(NonWordCharacters)
nonFileNameRegex == makeWordRegex(NonFileCharacters)

\* /[\.!\?]{1}([ \n\t]+|$)/g
sentenceEndRegex == [type |-> "sentence", escaped |-> {".", "!", "?"}]

\* /\S/g
nonWhiteRegex == [type |-> "nonwhite", escaped |-> {}]

Classifiers ==
  {nonWordCharRegex, nonBigWordCharRegex, nonCamelCaseWordCharRegex,
   nonFileNameRegex}

(***************************************************************************)
(* Construction of the camelCase classifier in a regex engine.  A pattern  *)
(* is a sequence of tokens; <escaped> stands for the escaped keyword       *)
(* characters.                                                             *)
(***************************************************************************)
\* the error of new RegExp on a pattern the engine cannot parse
SyntaxError == [error |-> "Invalid regular expression"]

\* the lookbehind assertions of the camelCase pattern
Lookbehinds == {"(?<=[A-Z_])", "(?<=[0-9_])", "(?<=[_])"}

\* new RegExp(pattern) in an engine that parses lookbehind assertions
\* (lookbehindEngine) or rejects them
NewRegExp(pattern, lookbehindEngine) ==
  IF ~lookbehindEngine /\ \E k \in 1..Len(pattern) : pattern[k] \in Lookbehinds
    THEN SyntaxError
    ELSE [source |-> pattern]

\* '(<=x)': a group that holds the three characters <=x
ProbePattern == <<"(", "<", "=", "x", ")">>

\* try { new RegExp('(<=x)') } catch { supportsLookbehind = false }
supportsLookbehind(lookbehindEngine) ==
  NewRegExp(ProbePattern, lookbehindEngine) # SyntaxError

\* the lookbehind of one alternative, present when supported
LookbehindOf(supported, lookbehind) == IF supported THEN <<lookbehind>> ELSE <<>>

\* firstSegment of makeCamelCaseWordRegex
firstSegment(supported) ==
  <<"(", "[^\\s<escaped>]", "(?:", "(?:">>
    \o LookbehindOf(supported, "(?<=[A-Z_])")
    \o <<"[A-Z](?=[\\sA-Z0-9<escaped>_]))+", "|", "(?:">>
    \o LookbehindOf(supported, "(?<=[0-9_])")
    \o <<"[0-9](?=[\\sA-Z0-9<escaped>_]))+", "|", "(?:">>
    \o LookbehindOf(supported, "(?<=[_])")
    \o <<"[_](?=[\\s<escaped>_]))+", "|", "[^\\sA-Z0-9<escaped>_]*", ")", ")">>

\* makeCamelCaseWordRegex(characterSet) run in an engine: the regex built,
\* or the error of new RegExp
makeCamelCaseWordRegexIn(characterSet, lookbehindEngine) ==
  LET supported == supportsLookbehind(lookbehindEngine)
      segments == firstSegment(supported)
                    \o <<"|", "[<escaped>]+", "|", "$^">>
      result == NewRegExp(segments, lookbehindEngine)
  IN  IF result = SyntaxError THEN SyntaxError
      ELSE [source |-> result.source, escaped |-> characterSet,
            lookbehind |-> supported]

(***************************************************************************)
(* Regular expression matching.                                            *)
(***************************************************************************)
CharAt(line, i) == line[i + 1]

\* the number of consecutive characters of line from index i that are in S
RECURSIVE RunLen(_, _, _)
RunLen(line, i, S) ==
  IF i < Len(line) /\ CharAt(line, i) \in S
    THEN 1 + RunLen(line, i + 1, S)
    ELSE 0

\* the number of consecutive characters from index j that are in S, each
\* preceded by a character of Behind and followed by a character of Ahead
RECURSIVE GuardedRunLen(_, _, _, _, _)
GuardedRunLen(line, j, S, Behind, Ahead) ==
  IF /\ j < Len(line)
     /\ CharAt(line, j) \in S
     /\ j >= 1 /\ CharAt(line, j - 1) \in Behind
     /\ j + 1 < Len(line) /\ CharAt(line, j + 1) \in Ahead
    THEN 1 + GuardedRunLen(line, j + 1, S, Behind, Ahead)
    ELSE 0

\* the segment "$^": end of input and start of input at once
MatchEmptyLine(line, i) == i = Len(line) /\ i = 0

\* ([^\s<escaped>]+)|[<escaped>]+|$^
MatchWordRegex(regex, line, i) ==
  LET all == ScanAlphabet \cup regex.escaped \cup Whitespace
      word == all \ (Whitespace \cup regex.escaped)
      w == RunLen(line, i, word)
      p == RunLen(line, i, regex.escaped)
  IN  IF w > 0 THEN w
      ELSE IF p > 0 THEN p
      ELSE IF MatchEmptyLine(line, i) THEN 0
      ELSE -1

\* firstSegment|[<escaped>]+|$^ of makeCamelCaseWordRegex
MatchCamelCaseWordRegex(regex, line, i) ==
  LET all == ScanAlphabet \cup regex.escaped \cup Whitespace
      esc == regex.escaped
      start == all \ (Whitespace \cup esc)
      ahead == Whitespace \cup UpperCase \cup Digits \cup esc \cup Underscore
      caps == GuardedRunLen(line, i + 1, UpperCase,
                            UpperCase \cup Underscore, ahead)
      digs == GuardedRunLen(line, i + 1, Digits,
                            Digits \cup Underscore, ahead)
      unds == GuardedRunLen(line, i + 1, Underscore, Underscore,
                            Whitespace \cup esc \cup Underscore)
      rest == RunLen(line, i + 1, all \ ahead)
      p == RunLen(line, i, esc)
  IN  IF i < Len(line) /\ CharAt(line, i) \in start
        THEN 1 + (IF caps > 0 THEN caps
                  ELSE IF digs > 0 THEN digs
                  ELSE IF unds > 0 THEN unds
                  ELSE rest)
      ELSE IF p > 0 THEN p
      ELSE IF MatchEmptyLine(line, i) THEN 0
      ELSE -1

\* the character class of symbol kind k: its intervals of the symbol table,
\* and the keyword characters for Punctuation
KindClass(regex, k) ==
  {c \in ScanAlphabet : k \in symbolTable(c)}
    \cup (IF k = "Punctuation" THEN regex.escaped ELSE {})

\* the match of the first symbol segment, in the order of CharKind, that
\* matches at i; 0 when none does
RECURSIVE MatchSymbolSegments(_, _, _, _)
MatchSymbolSegments(regex, line, i, k) ==
  IF k > Len(CharKind) THEN 0
  ELSE LET n == RunLen(line, i, KindClass(regex, CharKind[k]))
       IN  IF n > 0 THEN n ELSE MatchSymbolSegments(regex, line, i, k + 1)

\* ([<kind 0>]+)|...|([<kind 7>]+)|([^\s<all kinds>]+)|$^
MatchUnicodeWordRegex(regex, line, i) ==
  LET all == ScanAlphabet \cup regex.escaped \cup Whitespace
      symbols == SymbolChars \cup regex.escaped
      s == MatchSymbolSegments(regex, line, i, 1)
      w == RunLen(line, i, all \ (Whitespace \cup symbols))
  IN  IF s > 0 THEN s
      ELSE IF w > 0 THEN w
      ELSE IF MatchEmptyLine(line, i) THEN 0
      ELSE -1

\* [\.!\?]{1}([ \n\t]+|$): a sentence mark, then a run of blanks or the
\* end of the line
MatchSentenceEndRegex(regex, line, i) ==
  LET blanks == RunLen(line, i + 1, Whitespace)
  IN  IF i < Len(line) /\ CharAt(line, i) \in regex.escaped
        THEN IF blanks > 0 THEN 1 + blanks
             ELSE IF i + 1 = Len(line) THEN 1
             ELSE -1
      ELSE -1

\* \S: one character that is not whitespace
MatchNonWhiteRegex(regex, line, i) ==
  IF i < Len(line) /\ CharAt(line, i) \notin Whitespace THEN 1 ELSE -1

\* the length of the match of regex that starts at index i, -1 when none
MatchLen(regex, line, i) ==
  CASE regex.type = "word" -> MatchWordRegex(regex, line, i)
    [] regex.type = "camel" -> MatchCamelCaseWordRegex(regex, line, i)
    [] regex.type = "unicode" -> MatchUnicodeWordRegex(regex, line, i)
    [] regex.type = "sentence" -> MatchSentenceEndRegex(regex, line, i)
    [] regex.type = "nonwhite" -> MatchNonWhiteRegex(regex, line, i)

NoMatch == [found |-> FALSE, index |-> -1, length |-> 0, lastIndex |-> 0]

\* RegExp.prototype.exec of a global regex: the leftmost match at or after
\* lastIndex; a failed search resets lastIndex to 0
RECURSIVE ExecFrom(_, _, _)
ExecFrom(regex, line, i) ==
  IF i > Len(line) THEN NoMatch
  ELSE LET n == MatchLen(regex, line, i)
       IN  IF n >= 0
             THEN [found |-> TRUE, index |-> i, length |-> n,
                   lastIndex |-> i + n]
             ELSE ExecFrom(regex, line, i + 1)

\* an exec whose failed search leaves lastIndex where the search began
Exec_keepsLastIndex(regex, line, lastIndex) ==
  LET r == ExecFrom(regex, line, lastIndex)
  IN  IF r.found THEN r ELSE [r EXCEPT !.lastIndex = lastIndex]

Exec(regex, line, lastIndex) == ExecFrom(regex, line, lastIndex)

(***************************************************************************)
(* Position.getAllPositions and getAllEndPositions.  The state of a scan   *)
(* is the regex's lastIndex, the last result of exec and the positions     *)
(* found so far.                                                           *)
(***************************************************************************)
\* let positions = []; let result = regex.exec(line);
ScanBegin(line, regex, lastIndex) ==
  LET r == Exec(regex, line, lastIndex)
  IN  [positions |-> <<>>, result |-> r, lastIndex |-> r.lastIndex]

\* a scan that does not step over a zero-length match
AdvanceIfEmpty_never(st) == st.lastIndex

\* if (result.index === regex.lastIndex) { regex.lastIndex++; }
AdvanceIfEmpty(st) ==
  IF st.result.index = st.lastIndex THEN st.lastIndex + 1 ELSE st.lastIndex

\* one iteration of the loop of getAllPositions
getAllPositionsBody(line, regex, st) ==
  LET r == Exec(regex, line, AdvanceIfEmpty(st))
  IN  [positions |-> Append(st.positions, st.result.index),
       result |-> r, lastIndex |-> r.lastIndex]

\* an iteration that records the index after the match as its end
getAllEndPositionsBody_pastEnd(line, regex, st) ==
  LET r == Exec(regex, line, AdvanceIfEmpty(st))
  IN  [positions |->
         IF st.result.length # 0
           THEN Append(st.positions, st.result.index + st.result.length)
           ELSE st.positions,
       result |-> r, lastIndex |-> r.lastIndex]

\* one iteration of the loop of getAllEndPositions
getAllEndPositionsBody(line, regex, st) ==
  LET r == Exec(regex, line, AdvanceIfEmpty(st))
  IN  [positions |->
         IF st.result.length # 0
           THEN Append(st.positions, st.result.index + st.result.length - 1)
           ELSE st.positions,
       result |-> r, lastIndex |-> r.lastIndex]

RECURSIVE getAllPositionsLoop(_, _, _)
getAllPositionsLoop(line, regex, st) ==
  IF st.result.found
    THEN getAllPositionsLoop(line, regex, getAllPositionsBody(line, regex, st))
    ELSE st.positions

RECURSIVE getAllEndPositionsLoop(_, _, _)
getAllEndPositionsLoop(line, regex, st) ==
  IF st.result.found
    THEN getAllEndPositionsLoop(line, regex,
                                getAllEndPositionsBody(line, regex, st))
    ELSE st.positions

getAllPositions(line, regex) ==
  getAllPositionsLoop(line, regex, ScanBegin(line, regex, 0))

getAllEndPositions(line, regex) ==
  getAllEndPositionsLoop(line, regex, ScanBegin(line, regex, 0))

(***************************************************************************)
(* Values of the state.                                                    *)
(***************************************************************************)
Pos(l, c) == [line |-> l, character |-> c]

NoCall == [op |-> "none"]

ScanIdle ==
  [regex |-> nonWordCharRegex, fn |-> "none", pc |-> "idle", lastIndex |-> 0,
   from |-> 0, result |-> NoMatch, positions |-> <<>>, starts |-> <<>>,
   ends |-> <<>>, ran |-> {}]

\* from: the lastIndex the last exec started at
ScanOf(st, from) ==
  [scan EXCEPT !.positions = st.positions, !.result = st.result,
               !.lastIndex = st.lastIndex, !.from = from]

(***************************************************************************)
(* The boundary scans of one line, step by step: each of getAllPositions   *)
(* and getAllEndPositions is run once on the line, in either order, on the *)
(* same regex object.                                                      *)
(***************************************************************************)
ScanLines == UNION {[1..n -> ScanAlphabet] : n \in 0..MaxScanLen}

InitScan ==
  /\ doc \in {<<l>> : l \in ScanLines}
  /\ anchor = Pos(0, 0)
  /\ cursor = Pos(0, 0)
  /\ call = NoCall
  /\ scan \in {[ScanIdle EXCEPT !.regex = r] : r \in Classifiers}

ScanEnter(fn) ==
  /\ scan.pc = "idle"
  /\ fn \notin scan.ran
  /\ scan' = [ScanOf(ScanBegin(doc[1], scan.regex, scan.lastIndex),
                     scan.lastIndex)
                EXCEPT !.fn = fn, !.pc = "loop"]
  /\ UNCHANGED <<doc, anchor, cursor, call>>

getAllPositionsEnter == ScanEnter("getAllPositions")

getAllPositionsIterate ==
  /\ scan.pc = "loop" /\ scan.fn = "getAllPositions"
  /\ scan.result.found
  /\ scan' = ScanOf(getAllPositionsBody(doc[1], scan.regex, scan),
                    AdvanceIfEmpty(scan))
  /\ UNCHANGED <<doc, anchor, cursor, call>>

getAllPositionsReturn ==
  /\ scan.pc = "loop" /\ scan.fn = "getAllPositions"
  /\ ~scan.result.found
  /\ scan' = [scan EXCEPT !.pc = "idle", !.starts = scan.positions,
                          !.ran = scan.ran \cup {scan.fn}]
  /\ UNCHANGED <<doc, anchor, cursor, call>>

getAllEndPositionsEnter == ScanEnter("getAllEndPositions")

getAllEndPositionsIterate ==
  /\ scan.pc = "loop" /\ scan.fn = "getAllEndPositions"
  /\ scan.result.found
  /\ scan' = ScanOf(getAllEndPositionsBody(doc[1], scan.regex, scan),
                    AdvanceIfEmpty(scan))
  /\ UNCHANGED <<doc, anchor, cursor, call>>

getAllEndPositionsReturn ==
  /\ scan.pc = "loop" /\ scan.fn = "getAllEndPositions"
  /\ ~scan.result.found
  /\ scan' = [scan EXCEPT !.pc = "idle", !.ends = scan.positions,
                          !.ran = scan.ran \cup {scan.fn}]
  /\ UNCHANGED <<doc, anchor, cursor, call>>

NextScan ==
  \/ getAllPositionsEnter
  \/ getAllPositionsIterate
  \/ getAllPositionsReturn
  \/ getAllEndPositionsEnter
  \/ getAllEndPositionsIterate
  \/ getAllEndPositionsReturn

SpecScan == InitScan /\ [][NextScan]_vars

ScanDone == scan.pc = "idle" /\ scan.ran = {"getAllPositions", "getAllEndPositions"}

(***************************************************************************)
(* Position: the buffer is doc, a sequence of lines; line l of the buffer  *)
(* is doc[l + 1].                                                          *)
(***************************************************************************)
getLineCount == Len(doc)

getLineAt(l) == doc[l + 1]

getLineLength(l) == Len(getLineAt(l))

Max(a, b) == IF a >= b THEN a ELSE b

Min(a, b) == IF a <= b THEN a ELSE b

\* the value of find() on an array that holds no such element
Undefined == -1

\* the elements of an array
Elements(positions) == {positions[k] : k \in 1..Len(positions)}

\* Array.prototype.find: the first element of positions that satisfies the
\* test, passing being the elements that satisfy it
Find(positions, passing) ==
  LET hits == {k \in 1..Len(positions) : positions[k] \in passing}
  IN  IF hits = {} THEN Undefined
      ELSE positions[CHOOSE k \in hits : \A j \in hits : k <= j]

\* Array.prototype.reverse
Reverse(positions) ==
  [k \in 1..Len(positions) |-> positions[Len(positions) + 1 - k]]

isLineBeginning(p) == p.character = 0

isLineEnd(p) == p.character >= getLineLength(p.line)

isAtDocumentBegin(p) == p.line = 0 /\ isLineBeginning(p)

isAtDocumentEnd(p) == p.line = getLineCount - 1 /\ isLineEnd(p)

getLineBegin(p) == Pos(p.line, 0)

getLineEnd(p) == Pos(p.line, getLineLength(p.line))

getLineEndIncludingEOL(p) == Pos(p.line, getLineLength(p.line) + 1)

getDocumentBegin == Pos(0, 0)

getDocumentEnd ==
  LET line == IF getLineCount > 0 THEN getLineCount - 1 ELSE 0
  IN  Pos(line, getLineLength(line))

getNextLineBegin(p) ==
  IF p.line >= getLineCount - 1 THEN getLineEnd(p) ELSE Pos(p.line + 1, 0)

\* a motion that moves one character more than asked
getLeft_oneMore(p, count) == Pos(p.line, Max(p.character - count - 1, 0))

getLeft(p, count) ==
  LET newCharacter == Max(p.character - count, 0)
  IN  IF newCharacter # p.character THEN Pos(p.line, newCharacter) ELSE p

getRight(p, count) ==
  IF ~isLineEnd(p) THEN Pos(p.line, p.character + count) ELSE p

getDown(p, desiredColumn) ==
  IF getDocumentEnd.line # p.line
    THEN Pos(p.line + 1, Min(getLineLength(p.line + 1), desiredColumn))
    ELSE p

getUp(p, desiredColumn) ==
  IF getDocumentBegin.line # p.line
    THEN Pos(p.line - 1, Min(getLineLength(p.line - 1), desiredColumn))
    ELSE p

getLeftThroughLineBreaks(p, includeEol) ==
  IF ~isLineBeginning(p) THEN getLeft(p, 1)
  ELSE IF p.line = 0 THEN p
  ELSE IF includeEol THEN getLineEnd(getUp(p, 0))
  ELSE getLeft(getLineEnd(getUp(p, 0)), 1)

\* a motion that does not cross to the next line
getRightThroughLineBreaks_noCross(p, includeEol) ==
  IF isLineEnd(p) THEN p ELSE getRight(p, 1)

getRightThroughLineBreaks(p, includeEol) ==
  IF isAtDocumentEnd(p) THEN p
  ELSE IF isLineEnd(p) THEN getDown(p, 0)
  ELSE IF ~includeEol /\ isLineEnd(getRight(p, 1)) THEN getDown(p, 0)
  ELSE getRight(p, 1)

(***************************************************************************)
(* Word motions.                                                           *)
(***************************************************************************)
\* a search that never accepts the current position
getWordLeftWithRegexStatic_exclusive(text, pos, regex, forceFirst, inclusive) ==
  LET Test(index) == index < pos \/ forceFirst
      positions == Reverse(getAllPositions(text, regex))
  IN  Find(positions, {index \in Elements(positions) : Test(index)})

\* the static getWordLeftWithRegex(text, pos, regex, forceFirst, inclusive)
getWordLeftWithRegexStatic(text, pos, regex, forceFirst, inclusive) ==
  LET Test(index) ==
        \/ index < pos /\ ~inclusive
        \/ index <= pos /\ inclusive
        \/ forceFirst
      positions == Reverse(getAllPositions(text, regex))
  IN  Find(positions, {index \in Elements(positions) : Test(index)})

RECURSIVE getWordLeftWithRegexFrom(_, _, _, _)
getWordLeftWithRegexFrom(p, regex, inclusive, currentLine) ==
  IF currentLine >= 0
    THEN LET newCharacter ==
               getWordLeftWithRegexStatic(getLineAt(currentLine), p.character,
                                          regex, currentLine # p.line,
                                          inclusive)
         IN  IF newCharacter # Undefined
               THEN Pos(currentLine, newCharacter)
               ELSE getWordLeftWithRegexFrom(p, regex, inclusive,
                                             currentLine - 1)
    ELSE getLineBegin(Pos(0, 0))

getWordLeftWithRegex(p, regex, inclusive) ==
  getWordLeftWithRegexFrom(p, regex, inclusive, p.line)

\* a search that applies the column test on the following lines as well
RECURSIVE getWordRightWithRegexFrom_sameTest(_, _, _, _)
getWordRightWithRegexFrom_sameTest(p, regex, inclusive, currentLine) ==
  IF currentLine < getLineCount
    THEN LET Test(index) ==
               \/ index > p.character /\ ~inclusive
               \/ index >= p.character /\ inclusive
             positions == getAllPositions(getLineAt(currentLine), regex)
             newCharacter ==
               Find(positions,
                    {index \in Elements(positions) : Test(index)})
         IN  IF newCharacter # Undefined
               THEN Pos(currentLine, newCharacter)
               ELSE getWordRightWithRegexFrom_sameTest(p, regex, inclusive,
                                                       currentLine + 1)
    ELSE getLineEnd(Pos(getLineCount - 1, 0))

RECURSIVE getWordRightWithRegexFrom(_, _, _, _)
getWordRightWithRegexFrom(p, regex, inclusive, currentLine) ==
  IF currentLine < getLineCount
    THEN LET Test(index) ==
               \/ index > p.character /\ ~inclusive
               \/ index >= p.character /\ inclusive
               \/ currentLine # p.line
             positions == getAllPositions(getLineAt(currentLine), regex)
             newCharacter ==
               Find(positions,
                    {index \in Elements(positions) : Test(index)})
         IN  IF newCharacter # Undefined
               THEN Pos(currentLine, newCharacter)
               ELSE getWordRightWithRegexFrom(p, regex, inclusive,
                                              currentLine + 1)
    ELSE getLineEnd(Pos(getLineCount - 1, 0))

getWordRightWithRegex(p, regex, inclusive) ==
  getWordRightWithRegexFrom(p, regex, inclusive, p.line)

RECURSIVE getCurrentWordEndWithRegexFrom(_, _, _, _)
getCurrentWordEndWithRegexFrom(p, regex, inclusive, currentLine) ==
  IF currentLine < getLineCount
    THEN LET Test(index) ==
               \/ index > p.character /\ ~inclusive
               \/ index >= p.character /\ inclusive
               \/ currentLine # p.line
             positions == getAllEndPositions(getLineAt(currentLine), regex)
             newCharacter ==
               Find(positions,
                    {index \in Elements(positions) : Test(index)})
         IN  IF newCharacter # Undefined
               THEN Pos(currentLine, newCharacter)
               ELSE getCurrentWordEndWithRegexFrom(p, regex, inclusive,
                                                   currentLine + 1)
    ELSE getLineEnd(Pos(getLineCount - 1, 0))

getCurrentWordEndWithRegex(p, regex, inclusive) ==
  getCurrentWordEndWithRegexFrom(p, regex, inclusive, p.line)

getWordLeft(p, inclusive) ==
  getWordLeftWithRegex(p, nonWordCharRegex, inclusive)

getBigWordLeft(p, inclusive) ==
  getWordLeftWithRegex(p, nonBigWordCharRegex, inclusive)

getCamelCaseWordLeft(p, inclusive) ==
  getWordLeftWithRegex(p, nonCamelCaseWordCharRegex, inclusive)

getFilePathLeft(p, inclusive) ==
  getWordLeftWithRegex(p, nonFileNameRegex, inclusive)

getWordRight(p, inclusive) ==
  getWordRightWithRegex(p, nonWordCharRegex, inclusive)

\* the inclusive argument is not passed on
getBigWordRight(p, inclusive) ==
  getWordRightWithRegex(p, nonBigWordCharRegex, FALSE)

\* the inclusive argument is not passed on
getCamelCaseWordRight(p, inclusive) ==
  getWordRightWithRegex(p, nonCamelCaseWordCharRegex, FALSE)

getFilePathRight(p, inclusive) ==
  getWordRightWithRegex(p, nonFileNameRegex, inclusive)

getCurrentWordEnd(p, inclusive) ==
  getCurrentWordEndWithRegex(p, nonWordCharRegex, inclusive)


(***************************************************************************)
(* Paragraph and sentence motions.                                         *)
(***************************************************************************)
isLastLine(pos) == pos.line = getLineCount - 1

isFirstLine(pos) == pos.line = 0

\* String.prototype.trim
trim(text) == SelectSeq(text, LAMBDA c : c \notin Whitespace)

isLineBlank(pos, trimWhite) ==
  LET text == getLineAt(pos.line)
  IN  (IF trimWhite THEN trim(text) ELSE text) = <<>>

\* a search that does not skip the blank lines it starts in
DownToParagraph_stay(pos, trimWhite) == pos

\* while (pos.isLineBlank(trimWhite) && !TextEditor.isLastLine(pos))
RECURSIVE DownToParagraph(_, _)
DownToParagraph(pos, trimWhite) ==
  IF isLineBlank(pos, trimWhite) /\ ~isLastLine(pos)
    THEN DownToParagraph(getDown(pos, 0), trimWhite)
    ELSE pos

\* while (!pos.isLineBlank(trimWhite) && pos.line < getLineCount() - 1)
RECURSIVE DownOutOfParagraph(_, _)
DownOutOfParagraph(pos, trimWhite) ==
  IF ~isLineBlank(pos, trimWhite) /\ pos.line < getLineCount - 1
    THEN DownOutOfParagraph(getDown(pos, 0), trimWhite)
    ELSE pos

getCurrentParagraphEnd(p, trimWhite) ==
  getLineEnd(DownOutOfParagraph(DownToParagraph(p, trimWhite), trimWhite))

\* while (pos.isLineBlank(trimWhite) && !TextEditor.isFirstLine(pos))
RECURSIVE UpToParagraph(_, _)
UpToParagraph(pos, trimWhite) ==
  IF isLineBlank(pos, trimWhite) /\ ~isFirstLine(pos)
    THEN UpToParagraph(getUp(pos, 0), trimWhite)
    ELSE pos

\* while (pos.line > 0 && !pos.isLineBlank(trimWhite))
RECURSIVE UpOutOfParagraph(_, _)
UpOutOfParagraph(pos, trimWhite) ==
  IF pos.line > 0 /\ ~isLineBlank(pos, trimWhite)
    THEN UpOutOfParagraph(getUp(pos, 0), trimWhite)
    ELSE pos

getCurrentParagraphBeginning(p, trimWhite) ==
  getLineBegin(UpOutOfParagraph(UpToParagraph(p, trimWhite), trimWhite))

\* throw new Error('This should never happen...')
Thrown == [error |-> "This should never happen..."]

RECURSIVE getFirstNonWhitespaceFrom(_, _, _, _)
getFirstNonWhitespaceFrom(p, paragraphEnd, inclusive, currentLine) ==
  IF currentLine <= paragraphEnd.line
    THEN LET Test(index) ==
               \/ index > p.character /\ ~inclusive
               \/ index >= p.character /\ inclusive
               \/ currentLine # p.line
             nonWhitePositions ==
               getAllPositions(getLineAt(currentLine), nonWhiteRegex)
             newCharacter ==
               Find(nonWhitePositions,
                    {index \in Elements(nonWhitePositions) : Test(index)})
         IN  IF newCharacter # Undefined
               THEN Pos(currentLine, newCharacter)
               ELSE getFirstNonWhitespaceFrom(p, paragraphEnd, inclusive,
                                              currentLine + 1)
    ELSE Thrown

getFirstNonWhitespaceInParagraph(p, paragraphEnd, inclusive) ==
  IF getLineAt(p.line) # <<>> THEN paragraphEnd
  ELSE getFirstNonWhitespaceFrom(p, paragraphEnd, inclusive, p.line)

RECURSIVE getNextSentenceBeginFrom(_, _, _, _, _)
getNextSentenceBeginFrom(p, regex, inclusive, paragraphEnd, currentLine) ==
  IF currentLine <= paragraphEnd.line
    THEN LET Test(index) ==
               \/ index > p.character /\ ~inclusive
               \/ index >= p.character /\ inclusive
               \/ currentLine # p.line
             endPositions == getAllEndPositions(getLineAt(currentLine), regex)
             newCharacter ==
               Find(endPositions,
                    {index \in Elements(endPositions) : Test(index)})
         IN  IF newCharacter # Undefined
               THEN getRightThroughLineBreaks(Pos(currentLine, newCharacter),
                                              FALSE)
               ELSE getNextSentenceBeginFrom(p, regex, inclusive, paragraphEnd,
                                             currentLine + 1)
    ELSE getFirstNonWhitespaceInParagraph(p, paragraphEnd, inclusive)

getNextSentenceBeginWithRegex(p, regex, inclusive) ==
  getNextSentenceBeginFrom(p, regex, inclusive,
                           getCurrentParagraphEnd(p, FALSE), p.line)

\* a search that scans on to the last line of the buffer
RECURSIVE getCurrentSentenceEndFrom_toLastLine(_, _, _, _, _)
getCurrentSentenceEndFrom_toLastLine(p, regex, inclusive, paragraphEnd, currentLine) ==
  IF currentLine < getLineCount
    THEN LET Test(index) ==
               \/ index > p.character /\ ~inclusive
               \/ index >= p.character /\ inclusive
               \/ currentLine # p.line
             allPositions == getAllPositions(getLineAt(currentLine), regex)
             newCharacter ==
               Find(allPositions,
                    {index \in Elements(allPositions) : Test(index)})
         IN  IF newCharacter # Undefined
               THEN Pos(currentLine, newCharacter)
               ELSE getCurrentSentenceEndFrom_toLastLine(
                      p, regex, inclusive, paragraphEnd, currentLine + 1)
    ELSE getFirstNonWhitespaceInParagraph(p, paragraphEnd, inclusive)

RECURSIVE getCurrentSentenceEndFrom(_, _, _, _, _)
getCurrentSentenceEndFrom(p, regex, inclusive, paragraphEnd, currentLine) ==
  IF currentLine <= paragraphEnd.line
    THEN LET Test(index) ==
               \/ index > p.character /\ ~inclusive
               \/ index >= p.character /\ inclusive
               \/ currentLine # p.line
             allPositions == getAllPositions(getLineAt(currentLine), regex)
             newCharacter ==
               Find(allPositions,
                    {index \in Elements(allPositions) : Test(index)})
         IN  IF newCharacter # Undefined
               THEN Pos(currentLine, newCharacter)
               ELSE getCurrentSentenceEndFrom(p, regex, inclusive,
                                              paragraphEnd, currentLine + 1)
    ELSE getFirstNonWhitespaceInParagraph(p, paragraphEnd, inclusive)

getCurrentSentenceEndWithRegex(p, regex, inclusive) ==
  getCurrentSentenceEndFrom(p, regex, inclusive,
                            getCurrentParagraphEnd(p, FALSE), p.line)

RECURSIVE getPreviousSentenceBeginFrom(_, _, _, _)
getPreviousSentenceBeginFrom(p, regex, paragraphBegin, currentLine) ==
  IF currentLine >= paragraphBegin.line
    THEN LET Test(index) ==
               /\ getRightThroughLineBreaks(Pos(currentLine, index), FALSE) # p
               /\ (index < p.character \/ currentLine < p.line)
             endPositions ==
               Reverse(getAllEndPositions(getLineAt(currentLine), regex))
             newCharacter ==
               Find(endPositions,
                    {index \in Elements(endPositions) : Test(index)})
         IN  IF newCharacter # Undefined
               THEN getRightThroughLineBreaks(Pos(currentLine, newCharacter),
                                              FALSE)
               ELSE getPreviousSentenceBeginFrom(p, regex, paragraphBegin,
                                                 currentLine - 1)
    ELSE IF paragraphBegin.line + 1 = p.line \/ paragraphBegin.line = p.line
      THEN paragraphBegin
    ELSE Pos(paragraphBegin.line + 1, 0)

getPreviousSentenceBeginWithRegex(p, regex) ==
  getPreviousSentenceBeginFrom(p, regex, getCurrentParagraphBeginning(p, FALSE),
                               p.line)

getSentenceBegin(p, forward) ==
  IF forward THEN getNextSentenceBeginWithRegex(p, sentenceEndRegex, FALSE)
  ELSE getPreviousSentenceBeginWithRegex(p, sentenceEndRegex)

getCurrentSentenceEnd(p) ==
  getCurrentSentenceEndWithRegex(p, sentenceEndRegex, FALSE)

(***************************************************************************)
(* PositionDiff and Position.add.                                          *)
(***************************************************************************)
PositionDiffType == {"Offset", "BOL", "ObeyStartOfLine"}

\* new PositionDiff(line, character)
PositionDiff(line, character) ==
  [line |-> line, character |-> character, type |-> "Offset"]

NewBOLDiff(line, character, obeysStartOfLine) ==
  [PositionDiff(line, character) EXCEPT
     !.type = IF obeysStartOfLine THEN "ObeyStartOfLine" ELSE "BOL"]

\* throw new Error("johnfn hasn't done this case yet and doesnt want to")
UnsupportedComposition == [error |-> "johnfn hasn't done this case yet"]

\* an addDiff that accumulates into its receiver
addDiff_inPlace(this, other) ==
  LET sum == [this EXCEPT !.line = this.line + other.line,
                          !.character = this.character + other.character]
  IN  IF this.type # "Offset" \/ other.type # "Offset"
        THEN [ret |-> UnsupportedComposition, this |-> this, other |-> other]
        ELSE [ret |-> sum, this |-> sum, other |-> other]

\* this.addDiff(other): the value returned or thrown, and the two operands
\* as the call leaves them
addDiff(this, other) ==
  IF this.type # "Offset" \/ other.type # "Offset"
    THEN [ret |-> UnsupportedComposition, this |-> this, other |-> other]
    ELSE [ret |-> PositionDiff(this.line + other.line,
                               this.character + other.character),
          this |-> this, other |-> other]

\* the error of a Position built with a negative line or character, and of
\* reading a line that the buffer does not have
IllegalArgument == [error |-> "illegal argument"]

\* new Position(line, character)
NewPosition(line, character) ==
  IF line < 0 \/ character < 0 THEN IllegalArgument ELSE Pos(line, character)

\* TextEditor.readLineAt(line) raises for a line the buffer does not have
hasLine(line) == line \in 0..(getLineCount - 1)

\* TextEditor.readLineAt(line).match(/^\s*/)[0].length, for a line of the
\* buffer
getFirstNonBlankCharAtLine(line) == RunLen(getLineAt(line), 0, Whitespace)

\* new Position(line, 0).getFirstLineNonBlankChar()
getFirstLineNonBlankChar(line) ==
  IF line < 0 \/ ~hasLine(line) THEN IllegalArgument
  ELSE NewPosition(line, getFirstNonBlankCharAtLine(line))

\* new Position(line, 0).obeyStartOfLine(), startofline being the value of
\* configuration.startofline
obeyStartOfLine(line, startofline) ==
  IF startofline THEN getFirstLineNonBlankChar(line)
  ELSE NewPosition(line, 0)

\* p.add(diff, {boundsCheck})
add(p, diff, boundsCheck, startofline) ==
  LET line == p.line + diff.line
      snapped == obeyStartOfLine(line, startofline)
      character ==
        IF diff.type = "Offset" THEN p.character + diff.character
        ELSE IF diff.type = "BOL" THEN diff.character
        ELSE IF diff.type = "ObeyStartOfLine" /\ startofline
          THEN snapped.character
        ELSE p.character
      resultChar == IF boundsCheck /\ character < 0 THEN 0 ELSE character
      floorLine == IF boundsCheck /\ line < 0 THEN 0 ELSE line
      resultLine == IF boundsCheck /\ floorLine >= getLineCount - 1
                      THEN getLineCount - 1
                      ELSE floorLine
  IN  IF diff.type = "ObeyStartOfLine" /\ startofline
           /\ snapped = IllegalArgument
        THEN IllegalArgument
        ELSE NewPosition(resultLine, resultChar)

(***************************************************************************)
(* Find-character motions.                                                 *)
(***************************************************************************)
\* String.prototype.indexOf(char, fromIndex)
indexOf(text, char, fromIndex) ==
  LET hits == {i \in Max(fromIndex, 0)..(Len(text) - 1) : CharAt(text, i) = char}
  IN  IF hits = {} THEN -1 ELSE CHOOSE i \in hits : \A j \in hits : i <= j

\* String.prototype.lastIndexOf(char, fromIndex): fromIndex is clamped to
\* [0, length]
lastIndexOf(text, char, fromIndex) ==
  LET start == Min(Max(fromIndex, 0), Len(text))
      hits == {i \in 0..Min(start, Len(text) - 1) : CharAt(text, i) = char}
  IN  IF hits = {} THEN -1 ELSE CHOOSE i \in hits : \A j \in hits : i >= j

\* what findHelper returns when index is -1
UndefinedPosition == [undefined |-> TRUE]

\* the not-found sentinel of the four find motions
Null == [null |-> TRUE]

\* the inner loop of findHelper: while (count && index !== -1)
RECURSIVE findHelperInner(_, _, _)
findHelperInner(st, char, direction) ==
  IF st.count # 0 /\ st.index # -1
    THEN LET text == getLineAt(st.lineNum)
             index == IF direction > 0
                        THEN indexOf(text, char, st.index + direction)
                        ELSE lastIndexOf(text, char, st.index + direction)
         IN  IF index = -1 /\ st.count > 0
               THEN IF st.lineNum < getLineCount - 1
                      THEN findHelperInner(
                             [lineNum |-> st.lineNum + 1, index |-> 0,
                              count |-> st.count], char, direction)
                      ELSE [lineNum |-> st.lineNum, index |-> index,
                            count |-> 0]
               ELSE findHelperInner(
                      [lineNum |-> st.lineNum, index |-> index,
                       count |-> st.count - 1], char, direction)
    ELSE st

\* the outer loop of findHelper: while (count)
RECURSIVE findHelperOuter(_, _, _)
findHelperOuter(st, char, direction) ==
  IF st.count # 0
    THEN findHelperOuter(findHelperInner(st, char, direction), char, direction)
    ELSE st

findHelper(p, char, count, direction) ==
  LET st == findHelperOuter(
              [lineNum |-> p.line, index |-> p.character, count |-> count],
              char, direction)
  IN  IF st.index > -1 THEN Pos(st.lineNum, st.index) ELSE UndefinedPosition

tilForwards(p, char, count) ==
  LET position == findHelper(p, char, count, 1)
  IN  IF position = UndefinedPosition THEN Null
      ELSE Pos(position.line, position.character - 1)

tilBackwards(p, char, count) ==
  LET position == findHelper(p, char, count, -1)
  IN  IF position = UndefinedPosition THEN Null
      ELSE Pos(position.line, position.character + 1)

findForwards(p, char, count) ==
  LET position == findHelper(p, char, count, 1)
  IN  IF position = UndefinedPosition THEN Null ELSE position

\* a backward search that finds nothing
findBackwards_notFound(p, char, count) == Null

findBackwards(p, char, count) ==
  LET position == findHelper(p, char, count, -1)
  IN  IF position = UndefinedPosition THEN Null ELSE position

(***************************************************************************)
(* Buffers and the selection.                                              *)
(***************************************************************************)
MaxLines == 3
MaxDocChars == 3
MaxCount == 2
MaxDelta == 1

\* the buffers of k lines over alphabet A with at most n characters in all
RECURSIVE DocsWith(_, _, _)
DocsWith(A, k, n) ==
  IF k = 0 THEN {<<>>}
  ELSE UNION {{<<l>> \o d : l \in [1..m -> A], d \in DocsWith(A, k - 1, n - m)} :
                m \in 0..n}

Docs(A) == UNION {DocsWith(A, k, MaxDocChars) : k \in 1..MaxLines}

\* the positions of buffer d: a character index, or the line end
Positions(d) ==
  UNION {{Pos(l, c) : c \in 0..Len(d[l + 1])} : l \in 0..(Len(d) - 1)}

IsRegion(ret) == "start" \in DOMAIN ret

\* the selection after a motion returned ret: a region replaces the
\* selection, a position moves the cursor end, null moves nothing
Moved(ret) ==
  /\ anchor' = IF IsRegion(ret) THEN ret.start ELSE anchor
  /\ cursor' = IF IsRegion(ret) THEN ret.stop
               ELSE IF ret = Null THEN cursor
               ELSE ret

FindAlphabet == {"a", "."}

InitFind ==
  /\ doc \in Docs(FindAlphabet)
  /\ cursor \in Positions(doc)
  /\ anchor = cursor
  /\ call = NoCall
  /\ scan = ScanIdle

\* a find motion op(char, count) is called at the cursor and returns ret
FindCall(op, char, count, ret) ==
  /\ call = NoCall
  /\ call' = [op |-> op, char |-> char, count |-> count, from |-> cursor,
              ret |-> ret]
  /\ UNCHANGED <<doc, anchor, cursor, scan>>

findForwardsCall ==
  \E char \in FindAlphabet, count \in 1..MaxCount :
    FindCall("findForwards", char, count, findForwards(cursor, char, count))

findBackwardsCall ==
  \E char \in FindAlphabet, count \in 1..MaxCount :
    FindCall("findBackwards", char, count, findBackwards(cursor, char, count))

tilForwardsCall ==
  \E char \in FindAlphabet, count \in 1..MaxCount :
    FindCall("tilForwards", char, count, tilForwards(cursor, char, count))

tilBackwardsCall ==
  \E char \in FindAlphabet, count \in 1..MaxCount :
    FindCall("tilBackwards", char, count, tilBackwards(cursor, char, count))

NextFind ==
  \/ findForwardsCall
  \/ findBackwardsCall
  \/ tilForwardsCall
  \/ tilBackwardsCall

SpecFind == InitFind /\ [][NextFind]_vars

\* the find motions on the buffer of two lines "abc", "def"
ExampleLines == <<<<"a", "b", "c">>, <<"d", "e", "f">>>>

InitFindExample ==
  /\ doc = ExampleLines
  /\ cursor \in Positions(doc)
  /\ anchor = cursor
  /\ call = NoCall
  /\ scan = ScanIdle

SpecFindExample == InitFindExample /\ [][NextFind]_vars


(***************************************************************************)
(* The word motions of Position, each called at a position of a buffer.    *)
(***************************************************************************)
WordAlphabet == {"a", ".", " "}

InitWord ==
  /\ doc \in Docs(WordAlphabet)
  /\ cursor \in Positions(doc)
  /\ anchor = cursor
  /\ call = NoCall
  /\ scan = ScanIdle

\* a word motion op(inclusive) is called at the cursor and returns ret
WordCall(op, inclusive, ret) ==
  /\ call = NoCall
  /\ call' = [op |-> op, inclusive |-> inclusive, from |-> cursor,
              ret |-> ret]
  /\ UNCHANGED <<doc, anchor, cursor, scan>>

getWordLeftCall ==
  \E inclusive \in BOOLEAN :
    WordCall("getWordLeft", inclusive, getWordLeft(cursor, inclusive))

getBigWordLeftCall ==
  \E inclusive \in BOOLEAN :
    WordCall("getBigWordLeft", inclusive, getBigWordLeft(cursor, inclusive))

getCamelCaseWordLeftCall ==
  \E inclusive \in BOOLEAN :
    WordCall("getCamelCaseWordLeft", inclusive,
             getCamelCaseWordLeft(cursor, inclusive))

getFilePathLeftCall ==
  \E inclusive \in BOOLEAN :
    WordCall("getFilePathLeft", inclusive, getFilePathLeft(cursor, inclusive))

getWordRightCall ==
  \E inclusive \in BOOLEAN :
    WordCall("getWordRight", inclusive, getWordRight(cursor, inclusive))

getBigWordRightCall ==
  \E inclusive \in BOOLEAN :
    WordCall("getBigWordRight", inclusive, getBigWordRight(cursor, inclusive))

getCamelCaseWordRightCall ==
  \E inclusive \in BOOLEAN :
    WordCall("getCamelCaseWordRight", inclusive,
             getCamelCaseWordRight(cursor, inclusive))

getFilePathRightCall ==
  \E inclusive \in BOOLEAN :
    WordCall("getFilePathRight", inclusive,
             getFilePathRight(cursor, inclusive))

NextWord ==
  \/ getWordLeftCall
  \/ getBigWordLeftCall
  \/ getCamelCaseWordLeftCall
  \/ getFilePathLeftCall
  \/ getWordRightCall
  \/ getBigWordRightCall
  \/ getCamelCaseWordRightCall
  \/ getFilePathRightCall

SpecWord == InitWord /\ [][NextWord]_vars


(***************************************************************************)
(* The static word search of Position on the text of a line.               *)
(***************************************************************************)
\* static getWordLeft(text, pos, inclusive): inclusive is passed as the
\* fourth argument, forceFirst, and the fifth keeps its default, false
getWordLeftStatic(text, pos, inclusive) ==
  getWordLeftWithRegexStatic(text, pos, nonWordCharRegex, inclusive, FALSE)

\* the static getWordLeft is called with the text and the column of the cursor
getWordLeftStaticCall ==
  \E inclusive \in BOOLEAN :
    WordCall("getWordLeftStatic", inclusive,
             getWordLeftStatic(getLineAt(cursor.line), cursor.character,
                               inclusive))

NextWordStatic == getWordLeftStaticCall

SpecWordStatic == InitWord /\ [][NextWordStatic]_vars


(***************************************************************************)
(* The generator IterateWords.  call holds its frame between two resumes:  *)
(* the item it yielded last and whether it has returned.                   *)
(***************************************************************************)
\* String.prototype.substring(indexStart, indexEnd)
substring(text, indexStart, indexEnd) ==
  LET from == Max(0, Min(Len(text), Min(indexStart, indexEnd)))
      to == Max(0, Min(Len(text), Max(indexStart, indexEnd)))
  IN  SubSeq(text, from + 1, to)

\* yield {start, end: start.getCurrentWordEnd(true), word}, text being the
\* line that the generator read when it began
Yield(first, start) ==
  LET wordEnd == getCurrentWordEnd(start, TRUE)
  IN  [op |-> "IterateWords", from |-> first, start |-> start,
       end |-> wordEnd,
       word |-> substring(getLineAt(first.line), start.character,
                          wordEnd.character + 1),
       pc |-> "yielded"]

\* the generator is created at the cursor and runs to its first yield
IterateWordsBegin ==
  /\ call = NoCall
  /\ call' = Yield(cursor, cursor)
  /\ UNCHANGED <<doc, anchor, cursor, scan>>

\* the generator is resumed: it returns or runs to its next yield
IterateWordsResume ==
  /\ call.op = "IterateWords" /\ call.pc = "yielded"
  /\ call' = IF isLineEnd(getRight(call.end, 1))
               THEN [call EXCEPT !.pc = "returned"]
               ELSE Yield(call.from, getWordRight(call.start, FALSE))
  /\ UNCHANGED <<doc, anchor, cursor, scan>>

NextIterate ==
  \/ IterateWordsBegin
  \/ IterateWordsResume

SpecIterate == InitWord /\ [][NextIterate]_vars


(***************************************************************************)
(* The Kakoune motions of kakMotion.ts.  execAction gets the position of   *)
(* the selection's cursor end and the selection (cursorStartPosition,      *)
(* cursorStopPosition) and returns a region or a position.                 *)
(***************************************************************************)
Region(start, stop) == [start |-> start, stop |-> stop]

\* while (position.isLineEnd() && !position.isAtDocumentEnd())
\*   position = position.getRightThroughLineBreaks(true)
RECURSIVE SkipLineEndsRight(_)
SkipLineEndsRight(position) ==
  IF isLineEnd(position) /\ ~isAtDocumentEnd(position)
    THEN SkipLineEndsRight(getRightThroughLineBreaks(position, TRUE))
    ELSE position

\* while (position.isLineEnd() && !position.isAtDocumentBegin())
\*   position = position.getLeftThroughLineBreaks()
RECURSIVE SkipLineEndsLeft(_)
SkipLineEndsLeft(position) ==
  IF isLineEnd(position) /\ ~isAtDocumentBegin(position)
    THEN SkipLineEndsLeft(getLeftThroughLineBreaks(position, TRUE))
    ELSE position

MoveWordBegin(position) ==
  LET p == SkipLineEndsRight(position)
  IN  Region(p, getWordRight(p, FALSE))

ExtendWordBegin(position) ==
  LET p == SkipLineEndsRight(getRightThroughLineBreaks(position, FALSE))
  IN  getLeftThroughLineBreaks(getWordRight(p, TRUE), TRUE)

MoveWordBack(position) ==
  LET p == SkipLineEndsLeft(position)
  IN  Region(p, getWordLeft(p, FALSE))

MoveWordBackExtend(position) ==
  LET p == SkipLineEndsLeft(getLeftThroughLineBreaks(position, TRUE))
  IN  getWordLeft(p, FALSE)

MoveWordEnd(position) ==
  Region(getRightThroughLineBreaks(position, FALSE),
         getCurrentWordEnd(position, FALSE))

MoveWordEndExtend(position) == getCurrentWordEnd(position, FALSE)

SelectBuffer(position) == Region(getDocumentBegin, getDocumentEnd)

ReduceSelection(position) == Region(position, position)

\* an x that selects the line of the position whatever the selection is
SelectLine_stay(position, cursorStartPosition, cursorStopPosition) ==
  Region(getLineBegin(position), getLineEndIncludingEOL(position))

SelectLine(position, cursorStartPosition, cursorStopPosition) ==
  LET p == IF isLineBeginning(cursorStartPosition)
                /\ isLineEnd(cursorStopPosition)
             THEN getNextLineBegin(position)
             ELSE position
  IN  Region(getLineBegin(p), getLineEndIncludingEOL(p))

SelectLineExtend(position, cursorStartPosition, cursorStopPosition) ==
  LET p == IF isLineEnd(cursorStopPosition)
             THEN getNextLineBegin(position)
             ELSE position
  IN  IF cursorStartPosition.line = p.line
        THEN Region(getLineBegin(cursorStartPosition),
                    getLineEndIncludingEOL(p))
        ELSE Region(cursorStartPosition, getLineEndIncludingEOL(p))

KakAlphabet == {"a", " "}

\* a buffer with a selection from anchor to cursor
InitKak ==
  /\ doc \in Docs(KakAlphabet)
  /\ cursor \in Positions(doc)
  /\ anchor \in Positions(doc)
  /\ call = NoCall
  /\ scan = ScanIdle

\* the key of motion op is pressed: execAction runs at the cursor end of the
\* selection and the selection becomes its result
KeyPress(op, ret) ==
  /\ call = NoCall
  /\ call' = [op |-> op, from |-> cursor, start |-> anchor, ret |-> ret]
  /\ Moved(ret)
  /\ UNCHANGED <<doc, scan>>

MoveWordBeginKey == KeyPress("MoveWordBegin", MoveWordBegin(cursor))

ExtendWordBeginKey == KeyPress("ExtendWordBegin", ExtendWordBegin(cursor))

MoveWordBackKey == KeyPress("MoveWordBack", MoveWordBack(cursor))

MoveWordBackExtendKey ==
  KeyPress("MoveWordBackExtend", MoveWordBackExtend(cursor))

MoveWordEndKey == KeyPress("MoveWordEnd", MoveWordEnd(cursor))

MoveWordEndExtendKey ==
  KeyPress("MoveWordEndExtend", MoveWordEndExtend(cursor))

SelectBufferKey == KeyPress("SelectBuffer", SelectBuffer(cursor))

ReduceSelectionKey == KeyPress("ReduceSelection", ReduceSelection(cursor))

SelectLineKey == KeyPress("SelectLine", SelectLine(cursor, anchor, cursor))

SelectLineExtendKey ==
  KeyPress("SelectLineExtend", SelectLineExtend(cursor, anchor, cursor))

NextKak ==
  \/ MoveWordBeginKey
  \/ ExtendWordBeginKey
  \/ MoveWordBackKey
  \/ MoveWordBackExtendKey
  \/ MoveWordEndKey
  \/ MoveWordEndExtendKey
  \/ SelectBufferKey
  \/ ReduceSelectionKey
  \/ SelectLineKey
  \/ SelectLineExtendKey

SpecKak == InitKak /\ [][NextKak]_vars


(***************************************************************************)
(* The second copy of the Kakoune motions, part_000: w, W, b, x and X      *)
(* differ from kakMotion.ts, the other motions are the same.               *)
(***************************************************************************)
Part000_MoveWordBegin(position) ==
  LET p == SkipLineEndsRight(getRightThroughLineBreaks(position, FALSE))
  IN  Region(p, getLeftThroughLineBreaks(getWordRight(p, FALSE), TRUE))

Part000_ExtendWordBegin(position) == getLeft(getWordRight(position, FALSE), 1)

Part000_MoveWordBack(position) ==
  LET p == SkipLineEndsLeft(getLeftThroughLineBreaks(position, TRUE))
  IN  Region(p, getWordLeft(p, FALSE))

Part000_SelectLine(position) ==
  LET p == IF isLineEnd(position) THEN getNextLineBegin(position)
           ELSE position
  IN  Region(getLineBegin(p), getLineEndIncludingEOL(p))

Part000_SelectLineExtend(position) ==
  LET p == IF isLineEnd(position) THEN getNextLineBegin(position)
           ELSE position
  IN  getLineEndIncludingEOL(p)

Part000_MoveWordBeginKey ==
  KeyPress("MoveWordBegin", Part000_MoveWordBegin(cursor))

Part000_ExtendWordBeginKey ==
  KeyPress("ExtendWordBegin", Part000_ExtendWordBegin(cursor))

Part000_MoveWordBackKey ==
  KeyPress("MoveWordBack", Part000_MoveWordBack(cursor))

Part000_SelectLineKey == KeyPress("SelectLine", Part000_SelectLine(cursor))

Part000_SelectLineExtendKey ==
  KeyPress("SelectLineExtend", Part000_SelectLineExtend(cursor))

NextPart000 ==
  \/ Part000_MoveWordBeginKey
  \/ Part000_ExtendWordBeginKey
  \/ Part000_MoveWordBackKey
  \/ MoveWordBackExtendKey
  \/ MoveWordEndKey
  \/ MoveWordEndExtendKey
  \/ SelectBufferKey
  \/ ReduceSelectionKey
  \/ Part000_SelectLineKey
  \/ Part000_SelectLineExtendKey

SpecPart000 == InitKak /\ [][NextPart000]_vars


(***************************************************************************)
(* The paragraph and sentence motions of Position, each called at a        *)
(* position of a buffer.                                                   *)
(***************************************************************************)
InitSentence ==
  /\ doc \in Docs(WordAlphabet)
  /\ cursor \in Positions(doc)
  /\ anchor = cursor
  /\ call = NoCall
  /\ scan = ScanIdle

\* motion op(arg) is called at the cursor and returns ret, or throws
SentenceCall(op, arg, ret) ==
  /\ call = NoCall
  /\ call' = [op |-> op, arg |-> arg, from |-> cursor, ret |-> ret]
  /\ UNCHANGED <<doc, anchor, cursor, scan>>

getCurrentParagraphEndCall ==
  \E trimWhite \in BOOLEAN :
    SentenceCall("getCurrentParagraphEnd", trimWhite,
                 getCurrentParagraphEnd(cursor, trimWhite))

getCurrentParagraphBeginningCall ==
  \E trimWhite \in BOOLEAN :
    SentenceCall("getCurrentParagraphBeginning", trimWhite,
                 getCurrentParagraphBeginning(cursor, trimWhite))

getSentenceBeginCall ==
  \E forward \in BOOLEAN :
    SentenceCall("getSentenceBegin", forward,
                 getSentenceBegin(cursor, forward))

getCurrentSentenceEndCall ==
  SentenceCall("getCurrentSentenceEnd", FALSE, getCurrentSentenceEnd(cursor))

NextSentence ==
  \/ getCurrentParagraphEndCall
  \/ getCurrentParagraphBeginningCall
  \/ getSentenceBeginCall
  \/ getCurrentSentenceEndCall

SpecSentence == InitSentence /\ [][NextSentence]_vars

(***************************************************************************)
(* The character motions of Position.  getLeft and getRight are called at  *)
(* the cursor; the motions through line breaks also move the cursor, so    *)
(* that they can be applied again to their own result.                     *)
(***************************************************************************)
MoveAlphabet == {"a"}

\* isValid: a line of the buffer, a character up to the line terminator
ValidPositions(d) ==
  UNION {{Pos(l, c) : c \in 0..(Len(d[l + 1]) + 1)} : l \in 0..(Len(d) - 1)}

InitMove ==
  /\ doc \in Docs(MoveAlphabet)
  /\ cursor \in ValidPositions(doc)
  /\ anchor = cursor
  /\ call = NoCall
  /\ scan = ScanIdle

\* motion op(arg) is called at the cursor and returns ret
MoveCall(op, arg, ret) ==
  /\ call' = [op |-> op, arg |-> arg, from |-> cursor, ret |-> ret]
  /\ UNCHANGED <<doc, anchor, scan>>

getLeftCall ==
  \E count \in 1..MaxCount :
    MoveCall("getLeft", count, getLeft(cursor, count)) /\ UNCHANGED cursor

getRightCall ==
  \E count \in 1..MaxCount :
    MoveCall("getRight", count, getRight(cursor, count)) /\ UNCHANGED cursor

\* p.getRight().getLeft()
getRightGetLeftCall ==
  /\ MoveCall("getRight.getLeft", 1, getLeft(getRight(cursor, 1), 1))
  /\ UNCHANGED cursor

getLeftThroughLineBreaksCall ==
  \E includeEol \in BOOLEAN :
    /\ MoveCall("getLeftThroughLineBreaks", includeEol,
                getLeftThroughLineBreaks(cursor, includeEol))
    /\ cursor' = getLeftThroughLineBreaks(cursor, includeEol)

getRightThroughLineBreaksCall ==
  \E includeEol \in BOOLEAN :
    /\ MoveCall("getRightThroughLineBreaks", includeEol,
                getRightThroughLineBreaks(cursor, includeEol))
    /\ cursor' = getRightThroughLineBreaks(cursor, includeEol)

NextMove ==
  \/ getLeftCall
  \/ getRightCall
  \/ getRightGetLeftCall
  \/ getLeftThroughLineBreaksCall
  \/ getRightThroughLineBreaksCall

SpecMove == InitMove /\ [][NextMove]_vars


(***************************************************************************)
(* getRightByCount, called at every valid position with counts from 0.     *)
(***************************************************************************)
\* new Position(this.line, Math.min(text.length - 1, this.character + count))
getRightByCount(p, count) ==
  NewPosition(p.line, Min(getLineLength(p.line) - 1, p.character + count))

getRightByCountCall ==
  \E count \in 0..MaxCount :
    /\ call = NoCall
    /\ MoveCall("getRightByCount", count, getRightByCount(cursor, count))
    /\ UNCHANGED cursor

NextRightByCount == getRightByCountCall

SpecRightByCount == InitMove /\ [][NextRightByCount]_vars

(***************************************************************************)
(* x pressed again and again: the region that SelectLine returns becomes   *)
(* the selection, and its stop is the position of the next press.          *)
(***************************************************************************)
InitSelectLine ==
  /\ doc \in Docs(KakAlphabet)
  /\ cursor \in ValidPositions(doc)
  /\ anchor \in ValidPositions(doc)
  /\ call = NoCall
  /\ scan = ScanIdle

SelectLineAgain ==
  /\ call' = [op |-> "SelectLine", from |-> cursor, start |-> anchor,
              ret |-> SelectLine(cursor, anchor, cursor)]
  /\ Moved(SelectLine(cursor, anchor, cursor))
  /\ UNCHANGED <<doc, scan>>

NextSelectLine == SelectLineAgain

SpecSelectLine == InitSelectLine /\ [][NextSelectLine]_vars

(***************************************************************************)
(* Position.add and PositionDiff.addDiff, called with diffs of every kind. *)
(***************************************************************************)
Deltas == (0 - MaxDelta)..MaxDelta

\* the diffs that the constructor and NewBOLDiff make
Diffs ==
  {PositionDiff(l, c) : l \in Deltas, c \in Deltas}
    \cup {NewBOLDiff(l, c, o) : l \in Deltas, c \in Deltas, o \in BOOLEAN}

InitAdd ==
  /\ doc \in Docs(KakAlphabet)
  /\ cursor \in ValidPositions(doc)
  /\ anchor = cursor
  /\ call = NoCall
  /\ scan = ScanIdle

addCall ==
  \E diff \in Diffs, boundsCheck \in BOOLEAN, startofline \in BOOLEAN :
    /\ call = NoCall
    /\ call' = [op |-> "add", diff |-> diff, boundsCheck |-> boundsCheck,
                startofline |-> startofline, from |-> cursor,
                ret |-> add(cursor, diff, boundsCheck, startofline)]
    /\ UNCHANGED <<doc, anchor, cursor, scan>>

SpecAdd == InitAdd /\ [][addCall]_vars

\* addDiff does not read the buffer
InitDiff ==
  /\ doc = <<<<>>>>
  /\ cursor = Pos(0, 0)
  /\ anchor = cursor
  /\ call = NoCall
  /\ scan = ScanIdle

addDiffCall ==
  \E a \in Diffs, b \in Diffs :
    /\ call = NoCall
    /\ call' = [op |-> "addDiff", a |-> a, b |-> b, after |-> addDiff(a, b)]
    /\ UNCHANGED <<doc, anchor, cursor, scan>>

SpecDiff == InitDiff /\ [][addDiffCall]_vars

(***************************************************************************)
(* The camelCase classifier is built for a keyword set in an engine.       *)
(***************************************************************************)
\* characters that configuration.iskeyword may hold
KeywordCharacters == {".", "(", "-", "_", "/", "#"}

InitRegex ==
  /\ doc = <<<<>>>>
  /\ cursor = Pos(0, 0)
  /\ anchor = cursor
  /\ call = NoCall
  /\ scan = ScanIdle

makeCamelCaseWordRegexCall ==
  \E characterSet \in SUBSET KeywordCharacters, lookbehindEngine \in BOOLEAN :
    /\ call = NoCall
    /\ call' = [op |-> "makeCamelCaseWordRegex",
                characterSet |-> characterSet,
                lookbehindEngine |-> lookbehindEngine,
                ret |-> makeCamelCaseWordRegexIn(characterSet,
                                                 lookbehindEngine)]
    /\ UNCHANGED <<doc, anchor, cursor, scan>>

SpecRegex == InitRegex /\ [][makeCamelCaseWordRegexCall]_vars

(***************************************************************************)
(* The classifier regexes are static: every scan of every motion runs on   *)
(* the same regex object and starts at the lastIndex the scan before it    *)
(* left.  A scan runs to completion before the next one starts.            *)
(***************************************************************************)
\* a whole scan by fn of line with regex, begun at lastIndex: the state of
\* the scan when exec returns null
RECURSIVE ScanToEnd(_, _, _, _)
ScanToEnd(fn, line, regex, st) ==
  IF st.result.found
    THEN ScanToEnd(fn, line, regex,
                   IF fn = "getAllPositions"
                     THEN getAllPositionsBody(line, regex, st)
                     ELSE getAllEndPositionsBody(line, regex, st))
    ELSE st

InitShared ==
  /\ doc \in Docs(KakAlphabet)
  /\ cursor = Pos(0, 0)
  /\ anchor = cursor
  /\ call = NoCall
  /\ scan \in {[ScanIdle EXCEPT !.regex = r] : r \in Classifiers}

\* a motion scans line l of the buffer with fn
SharedScan(fn) ==
  \E l \in 0..(getLineCount - 1) :
    LET st == ScanToEnd(fn, getLineAt(l), scan.regex,
                        ScanBegin(getLineAt(l), scan.regex, scan.lastIndex))
    IN  /\ call' = [op |-> fn, line |-> l, ret |-> st.positions,
                    earlier |-> IF call = NoCall THEN -1 ELSE call.line]
        /\ scan' = [scan EXCEPT !.lastIndex = st.lastIndex, !.fn = fn,
                                !.ran = {fn}]
        /\ UNCHANGED <<doc, anchor, cursor>>

getAllPositionsShared == SharedScan("getAllPositions")

getAllEndPositionsShared == SharedScan("getAllEndPositions")

NextShared ==
  \/ getAllPositionsShared
  \/ getAllEndPositionsShared

SpecShared == InitShared /\ [][NextShared]_vars

(***************************************************************************)
(* Claims about the boundary scans.                                        *)
(***************************************************************************)
\* the runs of the scanned line that hold character index i
RunsHolding(i) ==
  {k \in 1..Len(scan.ends) :
     k <= Len(scan.starts) /\ scan.starts[k] <= i /\ i <= scan.ends[k]}

\* C1 as stated: once both scans of a line have returned, the starts pair
\* with the ends into runs, every character index of the line lies in
\* exactly one run, and the empty line has no run start and no run end.
C1_EveryIndexCovered ==
  ScanDone =>
    /\ Len(scan.starts) = Len(scan.ends)
    /\ \A i \in 0..(Len(doc[1]) - 1) : Cardinality(RunsHolding(i)) = 1
    /\ doc[1] = <<>> => scan.starts = <<>> /\ scan.ends = <<>>

\* C1, amended: the runs are pairwise disjoint and in increasing order, every
\* index of a non-whitespace character lies in exactly one run and no index
\* of a whitespace character lies in any; for the empty line
\* getAllEndPositions returns nothing and getAllPositions returns the index
\* 0 of the zero-length match.
C1_NonWhitespaceCovered ==
  ScanDone =>
    /\ doc[1] # <<>> => Len(scan.starts) = Len(scan.ends)
    /\ doc[1] = <<>> => scan.starts = <<0>> /\ scan.ends = <<>>
    /\ \A k \in 1..Len(scan.ends) :
         /\ scan.starts[k] <= scan.ends[k]
         /\ k < Len(scan.ends) => scan.ends[k] < scan.starts[k + 1]
    /\ \A i \in 0..(Len(doc[1]) - 1) :
         Cardinality(RunsHolding(i)) =
           IF CharAt(doc[1], i) \in Whitespace THEN 0 ELSE 1

\* a line with whitespace between two runs has been scanned by both routines
C1_Witness ==
  /\ ScanDone
  /\ Len(scan.ends) >= 2
  /\ \E i \in 0..(Len(doc[1]) - 1) : CharAt(doc[1], i) \in Whitespace

\* C2: every iteration of a scan loop restarts the search strictly after the
\* start of the match it consumed (one past lastIndex when the match was
\* empty), so the restart index strictly increases; it never passes the
\* length of the line by more than one, which bounds the number of
\* iterations; and every further match moves lastIndex strictly forward.
C2_ScanTerminates ==
  [][(scan.pc = "loop" /\ scan'.pc = "loop") =>
       /\ scan'.from > scan.result.index
       /\ scan'.from > scan.from
       /\ scan'.from <= Len(doc[1]) + 1
       /\ scan.result.length = 0 => scan'.from = scan.lastIndex + 1
       /\ scan'.result.found => scan'.lastIndex > scan.lastIndex]_vars

\* the zero-length match of the empty line has been consumed and the scan
\* has returned
C2_Witness ==
  /\ doc[1] = <<>>
  /\ ScanDone
  /\ scan.starts = <<0>>

(***************************************************************************)
(* Claims about the find-character motions.                                *)
(***************************************************************************)
isEarlierThan(p, q) ==
  \/ p.line < q.line
  \/ p.line = q.line /\ p.character < q.character

\* the positions of the buffer that hold char
Occurrences(char) ==
  {q \in Positions(doc) :
     q.character < getLineLength(q.line)
       /\ CharAt(getLineAt(q.line), q.character) = char}

\* the occurrences of char strictly after p, to the document end
OccurrencesAfter(p, char) == {q \in Occurrences(char) : isEarlierThan(p, q)}

\* the occurrences of char strictly before p on the line of p
OccurrencesBefore(p, char) ==
  {q \in Occurrences(char) : q.line = p.line /\ q.character < p.character}

\* the count-th occurrence of char after p in document order, or null
NthAfter(p, char, count) ==
  LET S == OccurrencesAfter(p, char)
  IN  IF Cardinality(S) < count THEN Null
      ELSE CHOOSE q \in S :
             Cardinality({r \in S : isEarlierThan(r, q)}) = count - 1

\* C3: findForwards(char, count) returns the count-th occurrence of char
\* strictly after the start position in document order, every column of the
\* following lines included, and null when there is none.
C3_FindForwardsNthOccurrence ==
  call.op = "findForwards" =>
    call.ret = NthAfter(call.from, call.char, call.count)

\* C4: a result of findBackwards or tilBackwards other than null lies on the
\* line of the start position.
C4_BackwardsStaysOnLine ==
  (call.op \in {"findBackwards", "tilBackwards"} /\ call.ret # Null) =>
    call.ret.line = call.from.line

\* C5: each of the four find motions returns null when fewer than count
\* occurrences of char lie in its search space: strictly after the position
\* to the document end (forward), strictly before the position on its line
\* (backward).
C5_NullWhenTooFewOccurrences ==
  /\ (/\ call.op \in {"findForwards", "tilForwards"}
      /\ Cardinality(OccurrencesAfter(call.from, call.char)) < call.count)
       => call.ret = Null
  /\ (/\ call.op \in {"findBackwards", "tilBackwards"}
      /\ Cardinality(OccurrencesBefore(call.from, call.char)) < call.count)
       => call.ret = Null

(***************************************************************************)
(* Claims about the word motions.                                          *)
(***************************************************************************)
\* the run kind of a character under the word classifier
WordKind(c) ==
  IF c \in Whitespace THEN "space"
  ELSE IF c \in NonWordCharacters THEN "Punctuation"
  ELSE IF symbolTable(c) # {} THEN CHOOSE k \in symbolTable(c) : TRUE
  ELSE "word"

\* the indices at which a run of the word classifier starts in text
RunStarts(text) ==
  {i \in 0..(Len(text) - 1) :
     /\ WordKind(CharAt(text, i)) # "space"
     /\ i = 0 \/ WordKind(CharAt(text, i - 1)) # WordKind(CharAt(text, i))}

\* the run starts, with column 0 of an empty line counted as one
StopsOf(text) == IF text = <<>> THEN {0} ELSE RunStarts(text)

SetMin(S) == CHOOSE i \in S : \A j \in S : i <= j

SetMax(S) == CHOOSE i \in S : \A j \in S : i >= j

\* the result claimed for getWordRight(inclusive = false) from p, with
\* column 0 of an empty line counted as a run start or not
WordRightBy(emptyLineStops, p) ==
  LET Starts(text) == IF emptyLineStops THEN StopsOf(text) ELSE RunStarts(text)
      here == {i \in Starts(getLineAt(p.line)) : i > p.character}
      below == {l \in (p.line + 1)..(getLineCount - 1) :
                  Starts(getLineAt(l)) # {}}
  IN  IF here # {} THEN Pos(p.line, SetMin(here))
      ELSE IF below # {}
        THEN Pos(SetMin(below), SetMin(Starts(getLineAt(SetMin(below)))))
      ELSE getDocumentEnd

\* the result claimed for getWordLeft(inclusive = false) from p
WordLeftBy(emptyLineStops, p) ==
  LET Starts(text) == IF emptyLineStops THEN StopsOf(text) ELSE RunStarts(text)
      here == {i \in Starts(getLineAt(p.line)) : i < p.character}
      above == {l \in 0..(p.line - 1) : Starts(getLineAt(l)) # {}}
  IN  IF here # {} THEN Pos(p.line, SetMax(here))
      ELSE IF above # {}
        THEN Pos(SetMax(above), SetMax(Starts(getLineAt(SetMax(above)))))
      ELSE Pos(0, 0)

NonInclusive(op) == call.op = op /\ ~call.inclusive

\* C8 as stated: getWordRight returns the next run start of the line, else
\* the first run start of the nearest following line that has a run, else
\* the document end; getWordLeft is the mirror image, ending at (0,0).
C8_NearestRunStart ==
  /\ NonInclusive("getWordRight") => call.ret = WordRightBy(FALSE, call.from)
  /\ NonInclusive("getWordLeft") => call.ret = WordLeftBy(FALSE, call.from)

\* C8, amended: the same, with column 0 of an empty line counted as a run
\* start, so the search stops at the nearest empty line as well.
C8_NearestRunStartOrEmptyLine ==
  /\ NonInclusive("getWordRight") => call.ret = WordRightBy(TRUE, call.from)
  /\ NonInclusive("getWordLeft") => call.ret = WordLeftBy(TRUE, call.from)

\* getWordRight has skipped a whitespace-only line and stopped on a run
\* start two lines below its start
C8_Witness ==
  /\ NonInclusive("getWordRight")
  /\ call.ret.line = call.from.line + 2
  /\ call.ret.character \in RunStarts(getLineAt(call.ret.line))

RegexOf(op) ==
  CASE op \in {"getWordLeft", "getWordRight"} -> nonWordCharRegex
    [] op \in {"getBigWordLeft", "getBigWordRight"} -> nonBigWordCharRegex
    [] op \in {"getCamelCaseWordLeft", "getCamelCaseWordRight"} ->
         nonCamelCaseWordCharRegex
    [] op \in {"getFilePathLeft", "getFilePathRight"} -> nonFileNameRegex

\* p is the first character of a run that the boundary scan of classifier
\* regex finds on the line of p
IsRunStartOf(regex, p) ==
  /\ p.character < getLineLength(p.line)
  /\ \E k \in 1..Len(getAllPositions(getLineAt(p.line), regex)) :
       getAllPositions(getLineAt(p.line), regex)[k] = p.character

\* C10: each of the eight word motions, called with inclusive = true from a
\* run start of its classifier, returns that position.
C10_InclusiveKeepsRunStart ==
  (/\ call.op # "none"
   /\ call.inclusive
   /\ IsRunStartOf(RegexOf(call.op), call.from))
    => call.ret = call.from

(***************************************************************************)
(* Claims about the Kakoune motions.                                       *)
(***************************************************************************)
\* C6: the stop of the region returned by w, b or e equals the position
\* returned by W, B or E called from the same position.
C6_RegionStopIsExtendResult ==
  /\ call.op = "MoveWordBegin" => call.ret.stop = ExtendWordBegin(call.from)
  /\ call.op = "MoveWordBack" => call.ret.stop = MoveWordBackExtend(call.from)
  /\ call.op = "MoveWordEnd" => call.ret.stop = MoveWordEndExtend(call.from)

\* the anchor of the selection that motion result ret leaves, start being
\* the anchor before
AnchorAfter(ret, start) == IF IsRegion(ret) THEN ret.start ELSE start

\* C7: the anchor after X is the anchor before it.
C7_SelectLineExtendKeepsAnchor ==
  call.op = "SelectLineExtend" => AnchorAfter(call.ret, call.start) = call.start

(***************************************************************************)
(* Claims about the paragraph and sentence motions.                        *)
(***************************************************************************)
\* a forward sentence search was called
ForwardSentenceCall ==
  \/ call.op = "getCurrentSentenceEnd"
  \/ call.op = "getSentenceBegin" /\ call.arg

\* C11: the position returned by getCurrentSentenceEnd and by
\* getSentenceBegin(forward) is on a line from the line of the position to
\* the line of its paragraph end.
C11_SentenceWithinParagraph ==
  ForwardSentenceCall /\ call.ret # Thrown =>
    /\ call.ret.line >= call.from.line
    /\ call.ret.line <= getCurrentParagraphEnd(call.from, FALSE).line

\* a sentence boundary found on a line after the line of the position
C11_Witness ==
  /\ ForwardSentenceCall
  /\ call.ret # Thrown
  /\ call.ret.line > call.from.line
  /\ call.ret # getCurrentParagraphEnd(call.from, FALSE)

\* C12: getCurrentSentenceEnd and getSentenceBegin(forward) return a
\* position and never raise.
C12_SentenceNeverThrows == ForwardSentenceCall => call.ret # Thrown

\* line l of the buffer is blank
Blank(l, trimWhite) == isLineBlank(Pos(l, 0), trimWhite)

\* the line a paragraph search from line L starts on, going down: L, or
\* the first non-blank line from a blank L on, or the last line
ParagraphBelow(L, trimWhite) ==
  LET words == {l \in L..(getLineCount - 1) : ~Blank(l, trimWhite)}
  IN  IF words = {} THEN getLineCount - 1 ELSE SetMin(words)

\* the line of the paragraph end claimed for line L
ParagraphEndLine(L, trimWhite) ==
  LET N == ParagraphBelow(L, trimWhite)
      blanks == {l \in (N + 1)..(getLineCount - 1) : Blank(l, trimWhite)}
  IN  IF Blank(N, trimWhite) \/ blanks = {} THEN getLineCount - 1
      ELSE SetMin(blanks)

\* going up: L, or the last non-blank line up from a blank L, or line 0
ParagraphAbove(L, trimWhite) ==
  LET words == {l \in 0..L : ~Blank(l, trimWhite)}
  IN  IF words = {} THEN 0 ELSE SetMax(words)

\* the line of the paragraph beginning claimed for line L
ParagraphBeginLine(L, trimWhite) ==
  LET N == ParagraphAbove(L, trimWhite)
      blanks == {l \in 0..(N - 1) : Blank(l, trimWhite)}
  IN  IF Blank(N, trimWhite) \/ blanks = {} THEN 0 ELSE SetMax(blanks)

\* C13: getCurrentParagraphEnd returns the line end of the first blank line
\* after the paragraph (leading blank lines skipped), or of the last line;
\* getCurrentParagraphBeginning returns column 0 of the first blank line
\* before the paragraph, or of line 0.
C13_ParagraphBoundaries ==
  /\ call.op = "getCurrentParagraphEnd" =>
       /\ call.ret.line >= call.from.line
       /\ call.ret =
            getLineEnd(Pos(ParagraphEndLine(call.from.line, call.arg), 0))
  /\ call.op = "getCurrentParagraphBeginning" =>
       /\ call.ret.line <= call.from.line
       /\ call.ret = Pos(ParagraphBeginLine(call.from.line, call.arg), 0)

\* a search from a blank line that skips it and passes a non-blank line
C13_Witness ==
  /\ call.op = "getCurrentParagraphEnd"
  /\ Blank(call.from.line, call.arg)
  /\ call.ret.line >= call.from.line + 2
  /\ Blank(call.ret.line, call.arg)

(***************************************************************************)
(* Claims about the character motions.                                     *)
(***************************************************************************)
\* C14: from a position that is not at line end, getRight then getLeft
\* returns the position.
C14_RightLeftRoundTrip ==
  call.op = "getRight.getLeft"
    /\ call.from.character < getLineLength(call.from.line)
    => call.ret = call.from

\* the round trip from a position inside a line, after moving there
C14_Witness ==
  /\ call.op = "getRight.getLeft"
  /\ call.from.character > 0
  /\ call.from.character < getLineLength(call.from.line)
  /\ call.ret = call.from

\* the result of a call stays in its line: a character from 0 to the
\* line length
WithinLine(from, ret) ==
  /\ ret.line = from.line
  /\ ret.character >= 0
  /\ ret.character <= getLineLength(from.line)

\* C15: getLeft(count) and getRight(count) stay in the line of the
\* receiver, with a character from 0 to the line length, for every
\* count >= 1.
C15_LeftRightClampWithinLine ==
  call.op \in {"getLeft", "getRight"} => WithinLine(call.from, call.ret)

\* C16: getRightThroughLineBreaks returns a strictly later position except
\* at document end and getLeftThroughLineBreaks a strictly earlier one
\* except at document begin, where they return the same position.
C16_ThroughLineBreaksProgress ==
  /\ call.op = "getRightThroughLineBreaks" =>
       IF isAtDocumentEnd(call.from) THEN call.ret = call.from
       ELSE isEarlierThan(call.from, call.ret)
  /\ call.op = "getLeftThroughLineBreaks" =>
       IF isAtDocumentBegin(call.from) THEN call.ret = call.from
       ELSE isEarlierThan(call.ret, call.from)

\* the position before the end of the last line: the last position that
\* getRightThroughLineBreaks(false) can reach
isBeforeDocumentEnd(p) ==
  p.line = getLineCount - 1 /\ isLineEnd(getRight(p, 1))

\* C16 amended: with includeEol false the motion to the right also stops
\* one character before the end of the last line.
C16_ProgressUntilLastCharacter ==
  /\ call.op = "getRightThroughLineBreaks" =>
       IF \/ isAtDocumentEnd(call.from)
          \/ ~call.arg /\ isBeforeDocumentEnd(call.from)
         THEN call.ret = call.from
         ELSE isEarlierThan(call.from, call.ret)
  /\ call.op = "getLeftThroughLineBreaks" =>
       IF isAtDocumentBegin(call.from) THEN call.ret = call.from
       ELSE isEarlierThan(call.ret, call.from)

\* a motion to the right, applied to the result of an earlier one, that
\* crosses to the next line
C16_Witness ==
  /\ call.op = "getRightThroughLineBreaks"
  /\ call.ret.line = call.from.line + 1
  /\ call.from.line > 0

(***************************************************************************)
(* Claims about Position.add and PositionDiff.                             *)
(***************************************************************************)
\* C17: add(diff) with boundsCheck returns a position, without raising,
\* with a line of the buffer and a character that is not negative.
C17_AddWithinBounds ==
  call.op = "add" /\ call.boundsCheck =>
    /\ call.ret # IllegalArgument
    /\ call.ret.line \in 0..(getLineCount - 1)
    /\ call.ret.character >= 0

\* C18: addDiff returns the Offset diff of the component-wise sums when
\* both operands are Offset diffs and fails otherwise; the operands are
\* unchanged.
C18_AddDiffOnlyOffsets ==
  call.op = "addDiff" =>
    /\ call.after.ret =
         IF call.a.type = "Offset" /\ call.b.type = "Offset"
           THEN [line |-> call.a.line + call.b.line,
                 character |-> call.a.character + call.b.character,
                 type |-> "Offset"]
           ELSE UnsupportedComposition
    /\ call.after.this = call.a
    /\ call.after.other = call.b

\* two Offset diffs that are not zero were added
C18_Witness ==
  /\ call.op = "addDiff"
  /\ call.a.type = "Offset" /\ call.b.type = "Offset"
  /\ call.a.line # 0 /\ call.b.character # 0
  /\ call.after.ret # UnsupportedComposition

(***************************************************************************)
(* Claims about the buffer and line selections.                            *)
(***************************************************************************)
\* the last character of the last line of the buffer
LastCharacter ==
  Pos(getLineCount - 1, Max(getLineLength(getLineCount - 1) - 1, 0))

\* C19: select-whole-buffer returns, from any position, start (0,0) and
\* stop the last character of the last line.
C19_SelectBufferToLastCharacter ==
  call.op = "SelectBuffer" =>
    call.ret = Region(Pos(0, 0), LastCharacter)

\* the line x selects from a selection end at p: the line of p, or the next
\* line when p is at an end of line and not on the last line
LineSelectedFrom(p) ==
  IF isLineEnd(p) /\ p.line < getLineCount - 1 THEN p.line + 1 ELSE p.line

\* C20: x returns the region from column 0 through the line terminator of
\* the line of the selection end, or of the next line when the selection
\* end is at an end of line, wherever the anchor is.
C20_SelectLineOfSelectionEnd ==
  call.op = "SelectLine" =>
    call.ret = Region(Pos(LineSelectedFrom(call.from), 0),
                      Pos(LineSelectedFrom(call.from),
                          getLineLength(LineSelectedFrom(call.from)) + 1))

(***************************************************************************)
(* Claims about the find motions on the buffer "abc", "def".               *)
(***************************************************************************)
\* findBackwards('a', 1) was called at (0,2) of "abc", "def"
BackwardsForA ==
  /\ doc = ExampleLines
  /\ call.op = "findBackwards"
  /\ call.from = Pos(0, 2)
  /\ call.char = "a" /\ call.count = 1

\* C21 as stated: on "abc", "def" at (0,2), findBackwards('a', 1) returns
\* the not-found sentinel.
C21_ExampleNotFound == BackwardsForA => call.ret = Null

\* C21 amended: it returns (0,0), the 'a' before the position on its line.
C21_ExampleFindsA == BackwardsForA => call.ret = Pos(0, 0)

C21_Witness == BackwardsForA /\ call.ret # Null

(***************************************************************************)
(* Claims about the construction of the camelCase classifier.              *)
(***************************************************************************)
\* C22: the construction never fails; the pattern holds the lookbehind
\* assertions exactly when the engine supports them.
C22_CamelCaseAlwaysBuilt ==
  call.op = "makeCamelCaseWordRegex" =>
    /\ call.ret # SyntaxError
    /\ call.ret.lookbehind = call.lookbehindEngine
    /\ (\E k \in 1..Len(call.ret.source) : call.ret.source[k] \in Lookbehinds)
         = call.lookbehindEngine

(***************************************************************************)
(* Claims about the shared classifier.                                     *)
(***************************************************************************)
\* the result of the scan of call c evaluated alone, from lastIndex 0
ScanAlone(c) ==
  IF c.op = "getAllPositions"
    THEN getAllPositions(getLineAt(c.line), scan.regex)
    ELSE getAllEndPositions(getLineAt(c.line), scan.regex)

\* C23: no scan writes to the buffer, every completed scan leaves the
\* lastIndex of the shared regex at 0, and every scan returns what it
\* returns when evaluated alone, after any sequence of earlier scans.
C23_ScansIndependent ==
  [][/\ doc' = doc
     /\ scan'.lastIndex = 0
     /\ call'.ret = ScanAlone(call')]_vars

\* a scan that found runs, after a scan of another line that found runs
C23_Witness ==
  /\ call # NoCall
  /\ call.earlier >= 0
  /\ call.earlier # call.line
  /\ call.ret # <<>>
  /\ getLineAt(call.earlier) # <<>>

(***************************************************************************)
(* Claims about the backward sentence motion (SpecSentence).               *)
(***************************************************************************)
BackwardSentenceCall == call.op = "getSentenceBegin" /\ ~call.arg

\* the ends of sentences of a line that lie before position p
BoundariesBefore(p, currentLine) ==
  {index \in Elements(getAllEndPositions(getLineAt(currentLine),
                                         sentenceEndRegex)) :
     index < p.character \/ currentLine < p.line}

\* no end of a sentence from the beginning of the paragraph of p to p
NoBoundaryBefore(p) ==
  \A currentLine \in getCurrentParagraphBeginning(p, FALSE).line .. p.line :
    BoundariesBefore(p, currentLine) = {}

\* column 0 of the first non-blank line of the paragraph of p
ParagraphFirstLine(p) ==
  LET paragraphBegin == getCurrentParagraphBeginning(p, FALSE)
  IN  IF isLineBlank(paragraphBegin, FALSE) /\ ~isLastLine(paragraphBegin)
        THEN Pos(paragraphBegin.line + 1, 0)
        ELSE paragraphBegin

\* C24: with no end of a sentence between the beginning of the paragraph and
\* a position on a non-blank line, getSentenceBegin(forward = false) returns
\* a position that is not later than column 0 of the first non-blank line of
\* the paragraph.
C24_FallsBackToParagraphBegin ==
  (/\ BackwardSentenceCall
   /\ ~isLineBlank(call.from, FALSE)
   /\ NoBoundaryBefore(call.from))
    => ~isEarlierThan(ParagraphFirstLine(call.from), call.ret)

\* C25: getSentenceBegin(forward = false) returns a position that is not
\* later than the position it starts from.
C25_BackwardNeverForward ==
  BackwardSentenceCall => ~isEarlierThan(call.from, call.ret)

(***************************************************************************)
(* Claims about the lines that w and x select (SpecKak).                   *)
(***************************************************************************)
\* C26: the stop of the region that w returns is on the line of the start of
\* the region.
C26_WordBeginStaysOnLine ==
  call.op = "MoveWordBegin" => call.ret.stop.line = call.ret.start.line

(***************************************************************************)
(* Claims about the static word search (SpecWordStatic).                   *)
(***************************************************************************)
\* the starts of the word runs of the line of p up to column p.character
StartsUpTo(p, inclusive) ==
  {i \in RunStarts(getLineAt(p.line)) :
     i < p.character \/ (inclusive /\ i = p.character)}

\* C27: the static getWordLeft(text, pos, inclusive) returns the greatest
\* start of a word run of text that is before pos, or at pos when inclusive,
\* and undefined when there is none; it never returns an index after pos.
C27_StaticWordLeft ==
  call.op = "getWordLeftStatic" =>
    /\ call.ret <= call.from.character
    /\ call.ret = IF StartsUpTo(call.from, call.inclusive) = {} THEN Undefined
                  ELSE SetMax(StartsUpTo(call.from, call.inclusive))

(***************************************************************************)
(* Claims about getRightByCount (SpecRightByCount).                        *)
(***************************************************************************)
\* C29: getRightByCount(count), count >= 0, returns a position on the line
\* of the receiver with a character that is not less than the receiver's,
\* not negative and not beyond the end of the line.
C29_RightByCountClamps ==
  call.op = "getRightByCount" =>
    /\ call.ret # IllegalArgument
    /\ WithinLine(call.from, call.ret)
    /\ call.ret.character >= call.from.character

(***************************************************************************)
(* Claims about x pressed again and again (SpecSelectLine).                *)
(***************************************************************************)
\* the selection from start to stop is line l, column 0 through the line
\* terminator
WholeLine(start, stop, l) ==
  /\ start = Pos(l, 0)
  /\ stop = Pos(l, getLineLength(l) + 1)

\* C28: every press of x selects one whole line; when whole line L was
\* selected the press selects line L + 1, and the last line again when L is
\* the last line.
C28_SelectLineAdvances ==
  [][/\ WholeLine(anchor', cursor', cursor'.line)
     /\ WholeLine(anchor, cursor, cursor.line) =>
          cursor'.line = IF cursor.line < getLineCount - 1
                           THEN cursor.line + 1
                           ELSE cursor.line]_vars

\* x was pressed on a selection of whole line L and line L + 1 is selected
C28_Witness ==
  /\ call.op = "SelectLine"
  /\ WholeLine(call.start, call.from, call.from.line)
  /\ WholeLine(anchor, cursor, call.from.line + 1)

(***************************************************************************)
(* Claims about IterateWords (SpecIterate).                                *)
(***************************************************************************)
\* the text of line l from column a through column b
TextThrough(l, a, b) ==
  IF a <= b /\ a <= getLineLength(l)
    THEN SubSeq(getLineAt(l), a + 1, Min(b + 1, getLineLength(l)))
    ELSE <<>>

\* C30: every item that IterateWords(start) yields has its start and its
\* end on the line of start, and its word is the text of that line from the
\* item's start through the item's end.
C30_ItemsOnStartLine ==
  call.op = "IterateWords" =>
    /\ call.start.line = call.from.line
    /\ call.end.line = call.from.line
    /\ call.word = TextThrough(call.from.line, call.start.character,
                                call.end.character)

=============================================================================
